---- MODULE Spec2Model ----
(***************************************************************************)
(* Model of the OCR classification pipeline of ocr_service_v2.OCRService:  *)
(* download_file_from_url, is_pdf_url, enhanced_handwritten_ocr,           *)
(* extract_text_from_pdf, extract_text_from_image and process_from_url.    *)
(*                                                                         *)
(* Strings are sequences of one-character strings, so that strip(),        *)
(* lower(), endswith() and concatenation are computed.  Confidences are    *)
(* exact rationals <<n, d>> in lowest terms (np.mean of integer token      *)
(* confidences); float rounding error of the mean is not modelled.         *)
(* The collaborators (HTTP, pypdf, fitz, OpenCV, tesseract) are            *)
(* nondeterministic choices over small sets of outputs, or an exception.   *)
(***************************************************************************)
EXTENDS Integers, Sequences, FiniteSets, TLC

(* ---------------------------- bounds ----------------------------------- *)
MaxPages == 2
MaxTokens == 2

(* ------------------------ program constants ---------------------------- *)
TextLayerMinLen == 50
TextPdfConfidence == 95
EnhanceBelow == 60
BandHigh == 80
BandMid == 60
BandLow == 40
SignalPage == 0

(* ---------------------------- strings ---------------------------------- *)
Str(n, ch) == [i \in 1..n |-> ch]

IsSpace(ch) == ch \in {" ", "\n"}

RECURSIVE LStrip(_)
LStrip(s) == IF s = <<>> THEN s
             ELSE IF IsSpace(Head(s)) THEN LStrip(Tail(s)) ELSE s

RECURSIVE RStrip(_)
RStrip(s) == IF s = <<>> THEN s
             ELSE IF IsSpace(s[Len(s)]) THEN RStrip(SubSeq(s, 1, Len(s) - 1)) ELSE s

\* the text left untrimmed
Strip_Identity(s) == s

Strip(s) == RStrip(LStrip(s))

LowerChar(ch) == CASE ch = "P" -> "p"
                   [] ch = "D" -> "d"
                   [] ch = "F" -> "f"
                   [] ch = "A" -> "a"
                   [] OTHER -> ch

Lower(s) == [i \in 1..Len(s) |-> LowerChar(s[i])]

EndsWith(s, suf) == /\ Len(s) >= Len(suf)
                    /\ SubSeq(s, Len(s) - Len(suf) + 1, Len(s)) = suf

RECURSIVE Concat(_)
Concat(ss) == IF ss = <<>> THEN <<>> ELSE Head(ss) \o Concat(Tail(ss))

RECURSIVE Join(_, _)
Join(sep, ss) == IF ss = <<>> THEN <<>>
                 ELSE IF Len(ss) = 1 THEN Head(ss)
                 ELSE Head(ss) \o sep \o Join(sep, Tail(ss))

(* --------------------------- rationals --------------------------------- *)
RECURSIVE GCD(_, _)
GCD(a, b) == IF b = 0 THEN a ELSE GCD(b, a % b)

Rat(n, d) == LET g == GCD(n, d) IN <<n \div g, d \div g>>

RatAdd(a, b) == Rat(a[1] * b[2] + b[1] * a[2], a[2] * b[2])

RatDiv(a, k) == Rat(a[1], a[2] * k)

RatLT(a, b) == a[1] * b[2] < b[1] * a[2]

RatGE(a, b) == ~RatLT(a, b)

RatGT(a, b) == RatLT(b, a)

Zero == Rat(0, 1)

RECURSIVE SumInts(_)
SumInts(s) == IF s = <<>> THEN 0 ELSE Head(s) + SumInts(Tail(s))

RECURSIVE SumRats(_)
SumRats(s) == IF s = <<>> THEN Zero ELSE RatAdd(Head(s), SumRats(Tail(s)))

\* np.mean over a non-empty list of ints / of page means
MeanInts(s) == Rat(SumInts(s), Len(s))

MeanRats(s) == RatDiv(SumRats(s), Len(s))

\* the value cut to two decimals instead of rounded
Round2_Truncate(c) == Rat((100 * c[1]) \div c[2], 100)

\* round(confidence, 2): nearest hundredth, ties to even
Round2(c) ==
    LET num == 100 * c[1]
        q == num \div c[2]
        r == num % c[2]
        up == \/ 2 * r > c[2]
              \/ (2 * r = c[2] /\ q % 2 = 1)
    IN Rat(IF up THEN q + 1 ELSE q, 100)

(* ------------------------ collaborator outputs ------------------------- *)
\* URLs handed to process_from_url
Urls == { <<"a", ".", "P", "d", "f">>,
          <<"a", ".", "p", "d", "f", "?">>,
          <<"a", ".", "d", "o", "c", "x">> }

\* what the fetched bytes are: a PDF of n pages, a decodable image, or neither
Contents == [kind : {"pdf"}, pages : 1..MaxPages]
              \cup [kind : {"image", "other"}, pages : {0}]

\* per-token confidences reported by image_to_data (-1 marks a non-word box)
TokenVals == {-1, 0, 20, 100}

TokenSeqs == UNION {[1..n -> TokenVals] : n \in 0..MaxTokens}

\* texts returned by image_to_string for one page or image
PageTexts == { <<>>, <<"a">>, <<"b", "\n">> }

\* texts returned by page.extract_text() of the embedded text layer
LayerTexts == { <<>>, Str(25, "a"), Str(26, "a"),
                <<" ">> \o Str(50, "a") \o <<"\n">> }

\* texts returned by the enhanced pass's image_to_string
EnhancedTexts == { <<>>, <<"c", "\n">> }

ContourScores == { <<0, 1>>, <<3, 10>>, <<1, 2>> }

ContourLimit == <<3, 10>>

\* exception messages of the collaborators
FetchCauses == {"timeout", "404 Client Error"}

DecodeCause == "Could not decode image from URL content"

(* --------------------------- pure functions ---------------------------- *)
\* the suffix compared without lowering the URL
is_pdf_url_CaseSensitive(u) == EndsWith(u, <<".", "p", "d", "f">>)

is_pdf_url(u) == EndsWith(Lower(u), <<".", "p", "d", "f">>)

\* str(conf).isdigit() for an integer conf
IsDigit(c) == c >= 0

\* the filter without its int(conf) > 0 half
PositiveConfs_KeepsZero(data) == SelectSeq(data, LAMBDA c : IsDigit(c))

\* [int(conf) for conf in data["conf"] if str(conf).isdigit() and int(conf) > 0]
PositiveConfs(data) == SelectSeq(data, LAMBDA c : IsDigit(c) /\ c > 0)

MeanOrZero(confs) == IF confs # <<>> THEN MeanInts(confs) ELSE Zero

\* enhanced_handwritten_ocr: out is the engine's output, or "raise"
\* per-token confidences reported by image_to_data on the enhanced image
EnhancedData == { <<>>, <<-1, 20>>, <<0, 100>>, <<20, 100, 100>> }

EnhancedOuts == [raises : {TRUE}, text : {<<>>}, data : {<<>>}]
                  \cup [raises : {FALSE}, text : EnhancedTexts, data : EnhancedData]

\* enhanced_handwritten_ocr: out is what the engine does on the enhanced image
enhanced_handwritten_ocr(out) ==
    IF out.raises THEN <<<<>>, Zero>>
    ELSE <<Strip(out.text), MeanOrZero(PositiveConfs(out.data))>>

Structural(texture, contour) == texture \/ RatGT(contour, ContourLimit)

\* the trigger without the contour rule
PdfTrigger_NoContour(texture, conf, contour) ==
    texture \/ RatLT(conf, Rat(EnhanceBelow, 1))

PdfTrigger(texture, conf, contour) ==
    texture \/ RatLT(conf, Rat(EnhanceBelow, 1)) \/ RatGT(contour, ContourLimit)

\* the trigger with the PDF family's contour rule
ImgTrigger_WithContour(texture, conf, contour) ==
    RatLT(conf, Rat(EnhanceBelow, 1)) \/ texture \/ RatGT(contour, ContourLimit)

\* the trigger without the confidence rule
ImgTrigger_TextureOnly(texture, conf, contour) == texture

ImgTrigger(texture, conf, contour) ==
    RatLT(conf, Rat(EnhanceBelow, 1)) \/ texture

\* the top band entered only above 80
PdfType_StrictHigh(c, texture, contour) ==
    IF RatGT(c, Rat(BandHigh, 1)) THEN "image_pdf"
    ELSE IF RatGE(c, Rat(BandMid, 1))
         THEN (IF ~Structural(texture, contour) THEN "image_pdf" ELSE "mixed_image_pdf")
    ELSE IF RatGE(c, Rat(BandLow, 1))
         THEN (IF Structural(texture, contour) THEN "low_quality_image_pdf"
               ELSE "low_quality_printed_pdf")
    ELSE "handwritten_pdf"

PdfType(c, texture, contour) ==
    IF RatGE(c, Rat(BandHigh, 1)) THEN "image_pdf"
    ELSE IF RatGE(c, Rat(BandMid, 1)) /\ RatLT(c, Rat(BandHigh, 1))
         THEN (IF ~Structural(texture, contour) THEN "image_pdf" ELSE "mixed_image_pdf")
    ELSE IF RatGE(c, Rat(BandLow, 1)) /\ RatLT(c, Rat(BandMid, 1))
         THEN (IF Structural(texture, contour) THEN "low_quality_image_pdf"
               ELSE "low_quality_printed_pdf")
    ELSE "handwritten_pdf"

\* the middle band labelled with an image-family name
ImgType_MixedLabel(c, texture, contour) ==
    IF RatGE(c, Rat(BandHigh, 1)) THEN "printed_image"
    ELSE IF RatGE(c, Rat(BandMid, 1))
         THEN (IF ~Structural(texture, contour) THEN "printed_image"
               ELSE "mixed_handwritten_image")
    ELSE IF RatGE(c, Rat(BandLow, 1))
         THEN (IF Structural(texture, contour) THEN "low_quality_image_"
               ELSE "low_quality_image")
    ELSE "handwritten_image"

\* the label table with the mixed label in the [40, 60) band
ImgType_MixedLowBand(c, texture, contour) ==
    IF RatGE(c, Rat(BandHigh, 1)) THEN "printed_image"
    ELSE IF RatGE(c, Rat(BandMid, 1)) /\ RatLT(c, Rat(BandHigh, 1))
         THEN (IF ~Structural(texture, contour) THEN "printed_image" ELSE "image_pdf")
    ELSE IF RatGE(c, Rat(BandLow, 1)) /\ RatLT(c, Rat(BandMid, 1))
         THEN (IF Structural(texture, contour) THEN "mixed_handwritten_image"
               ELSE "low_quality_image")
    ELSE "handwritten_image"

ImgType(c, texture, contour) ==
    IF RatGE(c, Rat(BandHigh, 1)) THEN "printed_image"
    ELSE IF RatGE(c, Rat(BandMid, 1)) /\ RatLT(c, Rat(BandHigh, 1))
         THEN (IF ~Structural(texture, contour) THEN "printed_image" ELSE "image_pdf")
    ELSE IF RatGE(c, Rat(BandLow, 1)) /\ RatLT(c, Rat(BandMid, 1))
         THEN (IF Structural(texture, contour) THEN "low_quality_image_"
               ELSE "low_quality_image")
    ELSE "handwritten_image"

\* the length test on the untrimmed text
TextLayerAccepted_NoStrip(t) == Len(t) > TextLayerMinLen

\* line 113: the embedded text layer is accepted
TextLayerAccepted(t) == Len(Strip(t)) > TextLayerMinLen

\* the refinement applied whatever the enhanced text is
Refined_Unguarded(t, c, r) ==
    <<t \o <<"\n">> \o r[1], RatDiv(RatAdd(c, r[2]), 2)>>

\* the text guarded, the confidence averaged whatever the enhanced text is
Refined_ConfidenceAlways(t, c, r) ==
    IF r[1] # <<>>
    THEN <<t \o <<"\n">> \o r[1], RatDiv(RatAdd(c, r[2]), 2)>>
    ELSE <<t, RatDiv(RatAdd(c, r[2]), 2)>>

\* lines 151-153 and 190-192: r is (extra_text, extra_conf)
Refined(t, c, r) ==
    IF r[1] # <<>>
    THEN <<t \o <<"\n">> \o r[1], RatDiv(RatAdd(c, r[2]), 2)>>
    ELSE <<t, c>>

\* the flag set without image_pdf
PdfHandwrittenLabels_OnlyHandwritten == {"handwritten_pdf"}

PdfHandwrittenLabels == {"handwritten_pdf", "image_pdf"}

ImgHandwrittenLabels == {"handwritten_image", "mixed_handwritten_image"}

NoTextFound == <<"(No text found)">>

ErrorText == <<"(Error extracting text)">>

Response(u, label, conf, flagLabels, txt) ==
    [url |-> u,
     file_type |-> label,
     confidence |-> Round2(conf),
     is_handwritten |-> label \in flagLabels,
     extracted_text |-> IF txt # <<>> THEN txt ELSE NoTextFound]

(* ------------------------------ state ---------------------------------- *)
VARIABLES
    url,               \* argument of process_from_url
    pc,                \* position inside the invocation
    file_content,      \* bytes returned by download_file_from_url
    text,              \* local `text`
    all_text,          \* local `all_text` of the PDF page loop
    confidences,       \* local `confidences` of the PDF page loop
    page_num,          \* pages recognised so far
    avg_conf,          \* local `avg_conf`
    texture_detected,  \* local `texture_detected`
    contour_score,     \* local `contour_score`
    extra,             \* (extra_text, extra_conf) of the enhanced pass
    file_type,         \* pdf_type / img_type returned by the extractor
    result,            \* value returned by process_from_url
    calls,             \* how often each collaborator was invoked
    enhanced_input,    \* page index of the raster given to the enhanced pass
    std_text,          \* text after the standard pass
    std_conf,          \* avg_conf after the standard pass
    raised,            \* message of the exception raised inside the pipeline
    prev,              \* label and flag of the preceding success response
    http,              \* what the endpoint serving the request answered
    stub,              \* the deterministic collaborators of a repeated call
    first,             \* what the first of two identical invocations returned
    proc,              \* the call of an image_processor function in progress
    parked,            \* the suspended one of two simultaneous invocations
    me                 \* which of the simultaneous invocations is running

vars == <<url, pc, file_content, text, all_text, confidences, page_num, avg_conf,
          texture_detected, contour_score, extra, file_type, result, calls,
          enhanced_input, std_text, std_conf, raised, prev, http, stub, first,
          proc, parked, me>>

NoCalls == [get |-> 0, textlayer |-> 0, rasterize |-> 0, decode |-> 0,
            recognize |-> 0, signals |-> 0, enhanced |-> 0]

Called(c) == [calls EXCEPT ![c] = @ + 1]

NoExtra == <<<<>>, Zero>>

Pending == [pending |-> TRUE]

NoPrev == [file_type |-> "none", is_handwritten |-> FALSE]

\* no endpoint has answered the request yet
NoHttp == [route |-> "none", status |-> 0, body |-> Pending]

\* the collaborators are free: every call may answer anything
NoStub == [free |-> TRUE]

\* no earlier invocation is kept for comparison
NoFirst == [nothing |-> TRUE]

\* no image_processor function is being called
Idle == [fn |-> "none"]

\* no second invocation is in progress
NoParked == [alone |-> TRUE]

\* what the pipeline steps of one invocation never touch
others == <<proc, parked, me>>

(* ---------------------- deterministic collaborators --------------------- *)
\* where a stubbed collaborator raises, and with which message
StubFails ==
    { [at |-> "none", cause |-> "none"],
      [at |-> "start", cause |-> "timeout"],
      [at |-> "start", cause |-> "404 Client Error"],
      [at |-> "downloaded", cause |-> "toolkit failure"],
      [at |-> "pdf_open", cause |-> "toolkit failure"],
      [at |-> "pdf_pages", cause |-> "engine failure"],
      [at |-> "pdf_signals", cause |-> "toolkit failure"],
      [at |-> "img_standard", cause |-> "engine failure"],
      [at |-> "img_signals", cause |-> "toolkit failure"] }

\* what a stubbed engine reports for one raster
StubPages ==
    { [data |-> <<>>, text |-> <<>>],
      [data |-> <<20>>, text |-> <<"a">>],
      [data |-> <<100, -1>>, text |-> <<"b", "\n">>] }

\* what the stubbed signal analysis reports
StubSignals ==
    { [texture |-> FALSE, contour |-> <<0, 1>>],
      [texture |-> TRUE, contour |-> <<0, 1>>],
      [texture |-> FALSE, contour |-> <<1, 2>>] }

\* what the stubbed signal analysis would report on a raster after the first
StubSignalsRest ==
    { [texture |-> FALSE, contour |-> <<0, 1>>],
      [texture |-> TRUE, contour |-> <<1, 2>>] }

\* what the stubbed engine does on the enhanced image
StubEnhanced ==
    { [raises |-> TRUE, text |-> <<>>, data |-> <<>>],
      [raises |-> FALSE, text |-> <<>>, data |-> <<>>],
      [raises |-> FALSE, text |-> <<"c", "\n">>, data |-> <<0, 100>>] }

\* a stub fixes, for the bytes behind a URL, the answer of every collaborator
Stubs ==
    [content : Contents,
     fail : StubFails,
     layer : {<<>>, Str(26, "a")},
     page : [1..MaxPages -> StubPages],
     signals : StubSignals,
     signals_rest : StubSignalsRest,
     enhanced : StubEnhanced]

Stubbed == "content" \in DOMAIN stub

\* the GET answers with the stub's bytes
Fetched(c) == Stubbed => stub.content = c

\* every page's text layer is the stub's
LayerRead(layers) == Stubbed => \A i \in DOMAIN layers : layers[i] = stub.layer

\* the engine's answer for the raster of page i
Recognized(i, data, page_text) ==
    Stubbed => stub.page[i] = [data |-> data, text |-> page_text]

\* the signal analysis run on the last raster of the document
Analyzed_LastPage(i, texture, contour) ==
    Stubbed => (IF file_content.pages = 1 THEN stub.signals ELSE stub.signals_rest)
                 = [texture |-> texture, contour |-> contour]

\* the signal analysis of the raster of page i
Analyzed(i, texture, contour) ==
    Stubbed => (IF i = 1 THEN stub.signals ELSE stub.signals_rest)
                 = [texture |-> texture, contour |-> contour]

\* the enhanced pass need not repeat its earlier answer
Enhanced_Unrepeatable(out) == TRUE

\* the engine's answer on the enhanced image
Enhanced(out) == Stubbed => stub.enhanced = out

\* the collaborator called at this position raises this exception
Throws(at, cause) == Stubbed => stub.fail = [at |-> at, cause |-> cause]

\* the collaborator called at this position returns
Survives(at) == Stubbed => stub.fail.at # at

Fresh(u) ==
    /\ url = u
    /\ pc = "start"
    /\ file_content = [kind |-> "other", pages |-> 0]
    /\ text = <<>>
    /\ all_text = <<>>
    /\ confidences = <<>>
    /\ page_num = 0
    /\ avg_conf = Zero
    /\ texture_detected = FALSE
    /\ contour_score = Zero
    /\ extra = NoExtra
    /\ file_type = "none"
    /\ result = Pending
    /\ calls = NoCalls
    /\ enhanced_input = -1
    /\ std_text = <<>>
    /\ std_conf = Zero
    /\ raised = "none"

Init == /\ \E u \in Urls : Fresh(u)
        /\ prev = NoPrev
        /\ http = NoHttp
        /\ stub = NoStub
        /\ first = NoFirst
        /\ proc = Idle
        /\ parked = NoParked
        /\ me = "A"

locals == <<text, all_text, confidences, page_num, avg_conf, texture_detected,
            contour_score, extra, file_type, enhanced_input, std_text, std_conf>>

(* ------------------------- process_from_url ---------------------------- *)
\* download_file_from_url succeeds
Download ==
    /\ pc = "start"
    /\ Survives("start")
    /\ \E c \in Contents : Fetched(c) /\ file_content' = c
    /\ calls' = Called("get")
    /\ pc' = "downloaded"
    /\ UNCHANGED <<url, prev, http, stub, first, others, locals, result, raised>>

\* the failed GET attempted again
DownloadFails_Retry ==
    /\ pc = "start"
    /\ calls' = Called("get")
    /\ UNCHANGED <<url, prev, http, stub, first, others, pc, file_content, locals, result, raised>>

\* download_file_from_url re-raises; process_from_url returns {"error": str(e)}
DownloadFails ==
    /\ pc = "start"
    /\ \E cause \in FetchCauses :
         /\ Throws("start", cause)
         /\ raised' = cause
         /\ result' = [error |-> cause]
    /\ calls' = Called("get")
    /\ pc' = "done"
    /\ UNCHANGED <<url, prev, http, stub, first, others, file_content, locals>>

(* ----------------------- extract_text_from_pdf -------------------------- *)
PipelineCauses == {"engine failure", "toolkit failure"}

\* lines 106-115: embedded text layer, accepted when longer than 50 after strip
ExtractTextLayer ==
    /\ pc = "downloaded"
    /\ is_pdf_url(url)
    /\ file_content.kind = "pdf"
    /\ Survives("downloaded")
    /\ \E layers \in [1..file_content.pages -> LayerTexts] :
         LET t == Concat(layers) IN
         /\ LayerRead(layers)
         /\ IF TextLayerAccepted(t)
            THEN /\ text' = Strip(t)
                 /\ avg_conf' = Rat(TextPdfConfidence, 1)
                 /\ file_type' = "text_pdf"
                 /\ pc' = "pdf_return"
            ELSE /\ text' = t
                 /\ pc' = "pdf_open"
                 /\ UNCHANGED <<avg_conf, file_type>>
    /\ calls' = Called("textlayer")
    /\ UNCHANGED <<url, prev, http, stub, first, others, file_content, all_text, confidences, page_num,
                   texture_detected, contour_score, extra, result,
                   enhanced_input, std_text, std_conf, raised>>

\* lines 118-119: fitz.open and the empty accumulators
OpenRaster ==
    /\ pc = "pdf_open"
    /\ Survives("pdf_open")
    /\ all_text' = <<>>
    /\ confidences' = <<>>
    /\ page_num' = 0
    /\ pc' = "pdf_pages"
    /\ UNCHANGED <<url, prev, http, stub, first, others, file_content, text, avg_conf, texture_detected,
                   contour_score, extra, file_type, result, calls,
                   enhanced_input, std_text, std_conf, raised>>

\* the page loop taking the pages from the last to the first
RecognizePage_Descending ==
    /\ pc = "pdf_pages"
    /\ page_num < file_content.pages
    /\ Survives("pdf_pages")
    /\ \E data \in TokenSeqs, page_text \in PageTexts :
         LET page_conf == PositiveConfs(data) IN
         /\ Recognized(file_content.pages - page_num, data, page_text)
         /\ all_text' = Append(all_text, page_text)
         /\ confidences' = IF page_conf # <<>>
                           THEN Append(confidences, MeanInts(page_conf))
                           ELSE confidences
    /\ page_num' = page_num + 1
    /\ calls' = [calls EXCEPT !.rasterize = @ + 1, !.recognize = @ + 1]
    /\ UNCHANGED <<url, prev, http, stub, first, others, pc, file_content, text, avg_conf, texture_detected,
                   contour_score, extra, file_type, result, enhanced_input,
                   std_text, std_conf, raised>>

\* lines 121-134: one iteration of the page loop
RecognizePage ==
    /\ pc = "pdf_pages"
    /\ page_num < file_content.pages
    /\ Survives("pdf_pages")
    /\ \E data \in TokenSeqs, page_text \in PageTexts :
         LET page_conf == PositiveConfs(data) IN
         /\ Recognized(page_num + 1, data, page_text)
         /\ all_text' = Append(all_text, page_text)
         /\ confidences' = IF page_conf # <<>>
                           THEN Append(confidences, MeanInts(page_conf))
                           ELSE confidences
    /\ page_num' = page_num + 1
    /\ calls' = [calls EXCEPT !.rasterize = @ + 1, !.recognize = @ + 1]
    /\ UNCHANGED <<url, prev, http, stub, first, others, pc, file_content, text, avg_conf, texture_detected,
                   contour_score, extra, file_type, result, enhanced_input,
                   std_text, std_conf, raised>>

\* lines 136-145: aggregate the pages, then the signals of page 0
AnalyzePdf ==
    /\ pc = "pdf_pages"
    /\ page_num = file_content.pages
    /\ text' = Strip(Join(<<"\n">>, all_text))
    /\ avg_conf' = IF confidences # <<>> THEN MeanRats(confidences) ELSE Zero
    /\ std_text' = text'
    /\ std_conf' = avg_conf'
    /\ Survives("pdf_signals")
    /\ \E texture \in BOOLEAN, contour \in ContourScores :
         /\ Analyzed(SignalPage + 1, texture, contour)
         /\ texture_detected' = texture
         /\ contour_score' = contour
    /\ calls' = [calls EXCEPT !.rasterize = @ + 1, !.signals = @ + 1]
    /\ pc' = "pdf_enhance"
    /\ UNCHANGED <<url, prev, http, stub, first, others, file_content, all_text, confidences, page_num, extra,
                   file_type, result, enhanced_input, raised>>

\* lines 148-153: enhanced refinement on the page-0 raster
EnhancePdf ==
    /\ pc = "pdf_enhance"
    /\ PdfTrigger(texture_detected, avg_conf, contour_score)
    /\ \E out \in EnhancedOuts :
         LET r == enhanced_handwritten_ocr(out) IN
         /\ Enhanced(out)
         /\ extra' = r
         /\ text' = Refined(text, avg_conf, r)[1]
         /\ avg_conf' = Refined(text, avg_conf, r)[2]
    /\ calls' = Called("enhanced")
    /\ enhanced_input' = SignalPage
    /\ pc' = "pdf_classify"
    /\ UNCHANGED <<url, prev, http, stub, first, others, file_content, all_text, confidences, page_num,
                   texture_detected, contour_score, file_type, result,
                   std_text, std_conf, raised>>

\* line 148 evaluates to false
SkipEnhancePdf ==
    /\ pc = "pdf_enhance"
    /\ ~PdfTrigger(texture_detected, avg_conf, contour_score)
    /\ pc' = "pdf_classify"
    /\ UNCHANGED <<url, prev, http, stub, first, others, file_content, locals, result, calls, raised>>

\* lines 155-165
ClassifyPdf ==
    /\ pc = "pdf_classify"
    /\ file_type' = PdfType(avg_conf, texture_detected, contour_score)
    /\ pc' = "pdf_return"
    /\ UNCHANGED <<url, prev, http, stub, first, others, file_content, text, all_text, confidences, page_num,
                   avg_conf, texture_detected, contour_score, extra, result,
                   calls, enhanced_input, std_text, std_conf, raised>>

\* lines 167-169: any exception inside extract_text_from_pdf
PdfRaises ==
    /\ \E cause \in PipelineCauses :
         /\ \/ /\ pc = "downloaded"
               /\ is_pdf_url(url)
               /\ \/ Throws("downloaded", cause)
                  \/ Stubbed /\ file_content.kind # "pdf" /\ cause = "toolkit failure"
               /\ calls' = Called("textlayer")
            \/ /\ pc = "pdf_open"
               /\ Throws("pdf_open", cause)
               /\ UNCHANGED calls
            \/ /\ pc = "pdf_pages"
               /\ page_num < file_content.pages
               /\ Throws("pdf_pages", cause)
               /\ calls' = Called("rasterize")
            \/ /\ pc = "pdf_pages"
               /\ page_num = file_content.pages
               /\ Throws("pdf_signals", cause)
               /\ calls' = Called("signals")
         /\ raised' = cause
    /\ text' = ErrorText
    /\ avg_conf' = Zero
    /\ file_type' = "error_pdf"
    /\ pc' = "pdf_return"
    /\ UNCHANGED <<url, prev, http, stub, first, others, file_content, all_text, confidences, page_num,
                   texture_detected, contour_score, extra, result,
                   enhanced_input, std_text, std_conf>>

\* lines 221-228
RespondPdf ==
    /\ pc = "pdf_return"
    /\ result' = Response(url, file_type, avg_conf, PdfHandwrittenLabels, text)
    /\ pc' = "done"
    /\ UNCHANGED <<url, prev, http, stub, first, others, file_content, locals, calls, raised>>

(* -------------------- image path of process_from_url -------------------- *)
\* lines 231-234: cv2.imdecode returns an image
DecodeImage ==
    /\ pc = "downloaded"
    /\ ~is_pdf_url(url)
    /\ file_content.kind = "image"
    /\ calls' = Called("decode")
    /\ pc' = "img_standard"
    /\ UNCHANGED <<url, prev, http, stub, first, others, file_content, locals, result, raised>>

\* lines 233-234 and 245-247: imdecode returns None, ValueError is caught
DecodeFails ==
    /\ pc = "downloaded"
    /\ ~is_pdf_url(url)
    /\ file_content.kind # "image"
    /\ calls' = Called("decode")
    /\ raised' = DecodeCause
    /\ result' = [error |-> DecodeCause]
    /\ pc' = "done"
    /\ UNCHANGED <<url, prev, http, stub, first, others, file_content, locals>>

(* ---------------------- extract_text_from_image ------------------------- *)
\* lines 177-182: standard pass
RecognizeImage ==
    /\ pc = "img_standard"
    /\ Survives("img_standard")
    /\ \E data \in TokenSeqs, image_text \in PageTexts :
         /\ Recognized(1, data, image_text)
         /\ text' = Strip(image_text)
         /\ avg_conf' = MeanOrZero(PositiveConfs(data))
    /\ std_text' = text'
    /\ std_conf' = avg_conf'
    /\ calls' = Called("recognize")
    /\ pc' = "img_signals"
    /\ UNCHANGED <<url, prev, http, stub, first, others, file_content, all_text, confidences, page_num,
                   texture_detected, contour_score, extra, file_type, result,
                   enhanced_input, raised>>

\* lines 184-185
AnalyzeImage ==
    /\ pc = "img_signals"
    /\ Survives("img_signals")
    /\ \E texture \in BOOLEAN, contour \in ContourScores :
         /\ Analyzed(1, texture, contour)
         /\ texture_detected' = texture
         /\ contour_score' = contour
    /\ calls' = Called("signals")
    /\ pc' = "img_enhance"
    /\ UNCHANGED <<url, prev, http, stub, first, others, file_content, text, all_text, confidences, page_num,
                   avg_conf, extra, file_type, result, enhanced_input,
                   std_text, std_conf, raised>>

\* lines 188-192
EnhanceImage ==
    /\ pc = "img_enhance"
    /\ ImgTrigger(texture_detected, avg_conf, contour_score)
    /\ \E out \in EnhancedOuts :
         LET r == enhanced_handwritten_ocr(out) IN
         /\ Enhanced(out)
         /\ extra' = r
         /\ text' = Refined(text, avg_conf, r)[1]
         /\ avg_conf' = Refined(text, avg_conf, r)[2]
    /\ calls' = Called("enhanced")
    /\ enhanced_input' = 0
    /\ pc' = "img_classify"
    /\ UNCHANGED <<url, prev, http, stub, first, others, file_content, all_text, confidences, page_num,
                   texture_detected, contour_score, file_type, result,
                   std_text, std_conf, raised>>

\* line 188 evaluates to false
SkipEnhanceImage ==
    /\ pc = "img_enhance"
    /\ ~ImgTrigger(texture_detected, avg_conf, contour_score)
    /\ pc' = "img_classify"
    /\ UNCHANGED <<url, prev, http, stub, first, others, file_content, locals, result, calls, raised>>

\* lines 195-207
ClassifyImage ==
    /\ pc = "img_classify"
    /\ file_type' = ImgType(avg_conf, texture_detected, contour_score)
    /\ pc' = "img_return"
    /\ UNCHANGED <<url, prev, http, stub, first, others, file_content, text, all_text, confidences, page_num,
                   avg_conf, texture_detected, contour_score, extra, result,
                   calls, enhanced_input, std_text, std_conf, raised>>

\* an exception in preprocess_image, tesseract or the signal analysis
\* leaves extract_text_from_image and is caught at lines 245-247
ImageRaises ==
    /\ \E cause \in PipelineCauses :
         /\ \/ /\ pc = "img_standard"
               /\ Throws("img_standard", cause)
               /\ calls' = Called("recognize")
            \/ /\ pc = "img_signals"
               /\ Throws("img_signals", cause)
               /\ calls' = Called("signals")
         /\ raised' = cause
         /\ result' = [error |-> cause]
    /\ pc' = "done"
    /\ UNCHANGED <<url, prev, http, stub, first, others, file_content, locals>>

\* lines 236-243
RespondImage ==
    /\ pc = "img_return"
    /\ result' = Response(url, file_type, avg_conf, ImgHandwrittenLabels, text)
    /\ pc' = "done"
    /\ UNCHANGED <<url, prev, http, stub, first, others, file_content, locals, calls, raised>>

IsSuccess(r) == "file_type" \in DOMAIN r

(* ------------------------- the HTTP endpoints --------------------------- *)
\* status of a response returned without an HTTPException
HTTP_OK == 200

\* StatusCode.UNPROCESSABLE_ENTITY
UNPROCESSABLE_ENTITY == 422

\* the literal status of the HTTPException of verify_handwritten
HTTP_500 == 500

\* len(extracted_text) of the success message
TextLen(t) ==
    IF t = NoTextFound THEN 15
    ELSE IF t = ErrorText THEN 23
    ELSE Len(t)

\* extract_data treats the placeholder text as a failed extraction
extract_data_RejectsPlaceholder(r) ==
    IF "error" \in DOMAIN r \/ r.extracted_text = NoTextFound
    THEN [route |-> "extract-data", status |-> UNPROCESSABLE_ENTITY,
          body |-> [detail |-> "Data extraction failed"]]
    ELSE [route |-> "extract-data", status |-> HTTP_OK,
          body |-> [success |-> TRUE, text_length |-> TextLen(r.extracted_text),
                    data |-> r]]

\* extract_data, after process_from_url has returned r
extract_data(r) ==
    IF "error" \in DOMAIN r
    THEN [route |-> "extract-data", status |-> UNPROCESSABLE_ENTITY,
          body |-> [detail |-> <<"Data extraction failed: ", r.error>>]]
    ELSE [route |-> "extract-data", status |-> HTTP_OK,
          body |-> [success |-> TRUE, text_length |-> TextLen(r.extracted_text),
                    data |-> r]]

\* the flag verify_handwritten computes for a PDF
VerifyPdfFlag(label, conf) ==
    label \in {"handwritten_pdf"} \/ RatLT(conf, <<BandLow, 1>>)

\* the flag verify_handwritten computes for an image
VerifyImageFlag(label, conf) ==
    label = "handwritten_image" \/ RatLT(conf, <<BandLow, 1>>)

\* the response verify_handwritten builds for a PDF
VerifyPdfResponse(u, label, conf) ==
    [url |-> u,
     file_type |-> label,
     is_handwritten |-> VerifyPdfFlag(label, conf),
     confidence |-> Round2(conf),
     method |-> IF label = "text_pdf" THEN "PyPDF" ELSE "fitz + Tesseract OCR",
     summary |-> IF VerifyPdfFlag(label, conf)
                 THEN "Detected handwritten PDF (low OCR confidence)"
                 ELSE "Detected printed/text PDF"]

\* the response verify_handwritten builds for an image
VerifyImageResponse(u, label, conf) ==
    [url |-> u,
     file_type |-> label,
     is_handwritten |-> VerifyImageFlag(label, conf),
     confidence |-> Round2(conf),
     method |-> "Tesseract OCR (image-based)",
     summary |-> IF VerifyImageFlag(label, conf)
                 THEN "Detected handwritten content (low confidence)"
                 ELSE "Detected printed text image"]

\* extract_data answers from what process_from_url returned
ExtractData ==
    /\ pc = "done"
    /\ http' = extract_data(result)
    /\ pc' = "answered"
    /\ UNCHANGED <<url, prev, stub, first, others, file_content, locals, result, calls, raised>>

\* verify_handwritten answers after extract_text_from_pdf has returned
VerifyPdf ==
    /\ pc = "pdf_return"
    /\ http' = [route |-> "verify-handwritten", status |-> HTTP_OK,
                body |-> [success |-> TRUE,
                          data |-> VerifyPdfResponse(url, file_type, avg_conf)]]
    /\ pc' = "answered"
    /\ UNCHANGED <<url, prev, stub, first, others, file_content, locals, result, calls, raised>>

\* verify_handwritten answers after extract_text_from_image has returned
VerifyImage ==
    /\ pc = "img_return"
    /\ http' = [route |-> "verify-handwritten", status |-> HTTP_OK,
                body |-> [success |-> TRUE,
                          data |-> VerifyImageResponse(url, file_type, avg_conf)]]
    /\ pc' = "answered"
    /\ UNCHANGED <<url, prev, stub, first, others, file_content, locals, result, calls, raised>>

\* an exception inside verify_handwritten: the fetch, the decoding, or the
\* image extractor raises, and the handler turns it into an HTTPException
VerifyRaises ==
    /\ \/ /\ pc = "start"
          /\ raised' \in FetchCauses
          /\ calls' = Called("get")
       \/ /\ pc = "downloaded"
          /\ ~is_pdf_url(url)
          /\ file_content.kind # "image"
          /\ raised' = DecodeCause
          /\ calls' = Called("decode")
       \/ /\ pc = "img_standard"
          /\ raised' \in PipelineCauses
          /\ calls' = Called("recognize")
       \/ /\ pc = "img_signals"
          /\ raised' \in PipelineCauses
          /\ calls' = Called("signals")
    /\ http' = [route |-> "verify-handwritten", status |-> HTTP_500,
                body |-> [detail |-> raised']]
    /\ pc' = "answered"
    /\ UNCHANGED <<url, prev, stub, first, others, file_content, locals, result>>

\* at entry of a request every local is fresh
EnterLocals ==
    /\ pc' = "start"
    /\ file_content' = [kind |-> "other", pages |-> 0]
    /\ text' = <<>>
    /\ all_text' = <<>>
    /\ confidences' = <<>>
    /\ page_num' = 0
    /\ avg_conf' = Zero
    /\ texture_detected' = FALSE
    /\ contour_score' = Zero
    /\ extra' = NoExtra
    /\ file_type' = "none"
    /\ result' = Pending
    /\ calls' = NoCalls
    /\ enhanced_input' = -1
    /\ std_text' = <<>>
    /\ std_conf' = Zero
    /\ raised' = "none"
    /\ http' = NoHttp

\* a request for any URL enters
Enter ==
    /\ url' \in Urls
    /\ EnterLocals

\* the next, independent request
NewRequest ==
    /\ pc = "answered"
    /\ Enter
    /\ UNCHANGED <<prev, stub, first, others>>

\* the next invocation, its caller keeping the last success response to compare
NextRequest ==
    /\ pc = "answered"
    /\ Enter
    /\ prev' = IF IsSuccess(result)
               THEN [file_type |-> result.file_type,
                     is_handwritten |-> result.is_handwritten]
               ELSE prev
    /\ UNCHANGED <<stub, first, others>>

\* process_from_url is called a second time with the same URL, its caller
\* keeping what the first call returned
Again ==
    /\ pc = "done"
    /\ Stubbed
    /\ "nothing" \in DOMAIN first
    /\ first' = result
    /\ url' = url
    /\ EnterLocals
    /\ UNCHANGED <<prev, stub, others>>

\* the steps of process_from_url
Pipeline ==
    \/ Download
    \/ DownloadFails
    \/ ExtractTextLayer
    \/ OpenRaster
    \/ RecognizePage
    \/ AnalyzePdf
    \/ EnhancePdf
    \/ SkipEnhancePdf
    \/ ClassifyPdf
    \/ PdfRaises
    \/ RespondPdf
    \/ DecodeImage
    \/ DecodeFails
    \/ RecognizeImage
    \/ AnalyzeImage
    \/ EnhanceImage
    \/ SkipEnhanceImage
    \/ ClassifyImage
    \/ ImageRaises
    \/ RespondImage

Step ==
    \/ Pipeline
    \/ ExtractData
    \/ VerifyPdf
    \/ VerifyImage
    \/ VerifyRaises

Next == Step \/ NewRequest

Spec == Init /\ [][Next]_vars

NextHist == Step \/ NextRequest

\* consecutive invocations, with the preceding success response remembered
SpecHist == Init /\ [][NextHist]_vars

\* the collaborators are deterministic stubs
InitReplay ==
    /\ \E u \in Urls : Fresh(u)
    /\ prev = NoPrev
    /\ http = NoHttp
    /\ stub \in Stubs
    /\ first = NoFirst
    /\ proc = Idle
    /\ parked = NoParked
    /\ me = "A"

NextReplay == Pipeline \/ Again

\* process_from_url called twice on one URL against one stub
SpecReplay == InitReplay /\ [][NextReplay]_vars

(* ---------------------- simultaneous invocations ------------------------- *)
\* stubs of the invocations that run side by side
ConcStubs ==
    [content : {[kind |-> "pdf", pages |-> MaxPages], [kind |-> "image", pages |-> 0]},
     fail : {[at |-> "none", cause |-> "none"]},
     layer : {<<>>},
     page : {[i \in 1..MaxPages |-> IF i = 1 THEN p ELSE [data |-> <<20>>, text |-> <<"a">>]] :
               p \in StubPages},
     signals : {[texture |-> FALSE, contour |-> <<0, 1>>],
                [texture |-> TRUE, contour |-> <<0, 1>>]},
     signals_rest : {[texture |-> FALSE, contour |-> <<0, 1>>]},
     enhanced : {[raises |-> FALSE, text |-> <<"c", "\n">>, data |-> <<0, 100>>]}]
    \cup
    [content : {[kind |-> "image", pages |-> 0]},
     fail : {[at |-> "start", cause |-> "timeout"],
             [at |-> "img_signals", cause |-> "toolkit failure"]},
     layer : {<<>>},
     page : {[i \in 1..MaxPages |-> [data |-> <<20>>, text |-> <<"a">>]]},
     signals : {[texture |-> FALSE, contour |-> <<0, 1>>]},
     signals_rest : {[texture |-> FALSE, contour |-> <<0, 1>>]},
     enhanced : {[raises |-> FALSE, text |-> <<"c", "\n">>, data |-> <<0, 100>>]}]

\* everything that belongs to the running invocation: its argument, its
\* position, its locals, and the collaborators' answers for its URL
Frame ==
    [url |-> url,
     pc |-> pc,
     file_content |-> file_content,
     text |-> text,
     all_text |-> all_text,
     confidences |-> confidences,
     page_num |-> page_num,
     avg_conf |-> avg_conf,
     texture_detected |-> texture_detected,
     contour_score |-> contour_score,
     extra |-> extra,
     file_type |-> file_type,
     result |-> result,
     calls |-> calls,
     enhanced_input |-> enhanced_input,
     std_text |-> std_text,
     std_conf |-> std_conf,
     raised |-> raised,
     stub |-> stub,
     me |-> me]

\* an invocation that has just been entered
Entered(u, st, who) ==
    [url |-> u, pc |-> "start", file_content |-> [kind |-> "other", pages |-> 0],
     text |-> <<>>, all_text |-> <<>>, confidences |-> <<>>, page_num |-> 0,
     avg_conf |-> Zero, texture_detected |-> FALSE, contour_score |-> Zero,
     extra |-> NoExtra, file_type |-> "none", result |-> Pending, calls |-> NoCalls,
     enhanced_input |-> -1, std_text |-> <<>>, std_conf |-> Zero, raised |-> "none",
     stub |-> st, me |-> who]

\* the invocation that ran alone is called again with the same URL while a
\* second invocation, for any URL, enters beside it
Fork ==
    /\ pc = "done"
    /\ parked = NoParked
    /\ first = NoFirst
    /\ first' = result
    /\ url' = url
    /\ EnterLocals
    /\ \E u \in Urls, st \in ConcStubs : parked' = Entered(u, st, "B")
    /\ UNCHANGED <<prev, stub, proc, me>>

\* the scheduler suspends the running invocation and resumes the other, the
\* locals all_text and confidences being one object for both
Switch_SharesAccumulators ==
    /\ parked # NoParked
    /\ parked' = Frame
    /\ url' = parked.url
    /\ pc' = parked.pc
    /\ file_content' = parked.file_content
    /\ text' = parked.text
    /\ page_num' = parked.page_num
    /\ avg_conf' = parked.avg_conf
    /\ texture_detected' = parked.texture_detected
    /\ contour_score' = parked.contour_score
    /\ extra' = parked.extra
    /\ file_type' = parked.file_type
    /\ result' = parked.result
    /\ calls' = parked.calls
    /\ enhanced_input' = parked.enhanced_input
    /\ std_text' = parked.std_text
    /\ std_conf' = parked.std_conf
    /\ raised' = parked.raised
    /\ stub' = parked.stub
    /\ me' = parked.me
    /\ UNCHANGED <<all_text, confidences, prev, http, first, proc>>

\* the scheduler suspends the running invocation and resumes the other: each
\* has its own frame of locals (static methods, no module or class state)
Switch ==
    /\ parked # NoParked
    /\ parked' = Frame
    /\ url' = parked.url
    /\ pc' = parked.pc
    /\ file_content' = parked.file_content
    /\ text' = parked.text
    /\ all_text' = parked.all_text
    /\ confidences' = parked.confidences
    /\ page_num' = parked.page_num
    /\ avg_conf' = parked.avg_conf
    /\ texture_detected' = parked.texture_detected
    /\ contour_score' = parked.contour_score
    /\ extra' = parked.extra
    /\ file_type' = parked.file_type
    /\ result' = parked.result
    /\ calls' = parked.calls
    /\ enhanced_input' = parked.enhanced_input
    /\ std_text' = parked.std_text
    /\ std_conf' = parked.std_conf
    /\ raised' = parked.raised
    /\ stub' = parked.stub
    /\ me' = parked.me
    /\ UNCHANGED <<prev, http, first, proc>>

InitConc ==
    /\ \E u \in Urls : Fresh(u)
    /\ prev = NoPrev
    /\ http = NoHttp
    /\ stub \in ConcStubs
    /\ first = NoFirst
    /\ proc = Idle
    /\ parked = NoParked
    /\ me = "A"

NextConc == Pipeline \/ Fork \/ Switch

\* one invocation alone, then the same invocation interleaved with another
SpecConc == InitConc /\ [][NextConc]_vars

(* ------------------- core/image_processor functions --------------------- *)
\* everything an image_processor function leaves alone
invocation == <<url, pc, file_content, locals, result, calls, raised, prev, http,
                stub, first, parked, me>>

Returns(v) == [kind |-> "return", value |-> v]

Raises(m) == [kind |-> "raise", value |-> m]

\* the toolkit calls of preprocess_image, in order
StandardCalls == {"cvtColor", "GaussianBlur", "adaptiveThreshold"}

\* preprocess_image: failing names the toolkit call that raises, or "none"
preprocess_image(img, failing) ==
    IF img = "None" THEN Raises("Input image is None")
    ELSE IF failing # "none" THEN Raises(failing)
    ELSE Returns("thresh")

\* the toolkit calls of preprocess_image_advanced, in order
AdvancedCalls == {"convert", "cvtColor", "clahe", "bilateralFilter", "morphologyEx",
                  "adaptiveThreshold", "fromarray", "filter", "enhance"}

PilImages == [mode : {"RGB", "L", "RGBA"}, pixels : {"raw"}]

\* preprocess_image_advanced: the except branch returns the local pil_image,
\* which the try block rebinds to the RGB conversion for a non-RGB input
preprocess_image_advanced(pil_image, failing) ==
    IF failing = "convert" /\ pil_image.mode # "RGB" THEN Returns(pil_image)
    ELSE IF failing \notin {"none", "convert"}
         THEN Returns([mode |-> "RGB", pixels |-> pil_image.pixels])
    ELSE Returns([mode |-> "L", pixels |-> "processed"])

\* edge_threshold of detect_handwriting_texture
EdgeThreshold == <<2, 25>>

\* texture_threshold of detect_handwriting_texture
TextureThreshold == 250

EdgeDensities == { <<0, 1>>, <<7, 100>>, <<2, 25>>, <<81, 1000>>, <<9, 100>>, <<1, 1>> }

LaplacianVariances == { <<0, 1>>, <<249, 1>>, <<250, 1>>, <<501, 2>>, <<251, 1>>, <<1000, 1>> }

\* both comparisons of detect_handwriting_texture taken as inclusive
detect_handwriting_texture_Inclusive(image, edge_density, lap_var) ==
    IF image = "None" THEN Raises("Input image is None")
    ELSE Returns(RatGE(edge_density, EdgeThreshold)
                   \/ RatGE(lap_var, <<TextureThreshold, 1>>))

\* detect_handwriting_texture: edge_density and lap_var are what the toolkit
\* measures on the image
detect_handwriting_texture(image, edge_density, lap_var) ==
    IF image = "None" THEN Raises("Input image is None")
    ELSE Returns(RatGT(edge_density, EdgeThreshold)
                   \/ RatGT(lap_var, <<TextureThreshold, 1>>))

CallPreprocessImage ==
    /\ proc = Idle
    /\ \E img \in {"None", "bgr"}, failing \in StandardCalls \cup {"none"} :
         proc' = [fn |-> "preprocess_image", input |-> img, failing |-> failing,
                  outcome |-> preprocess_image(img, failing)]
    /\ UNCHANGED invocation

CallPreprocessImageAdvanced ==
    /\ proc = Idle
    /\ \E pil_image \in PilImages, failing \in AdvancedCalls \cup {"none"} :
         proc' = [fn |-> "preprocess_image_advanced", input |-> pil_image,
                  failing |-> failing,
                  outcome |-> preprocess_image_advanced(pil_image, failing)]
    /\ UNCHANGED invocation

CallDetectHandwritingTexture ==
    /\ proc = Idle
    /\ \E image \in {"None", "bgr"}, edge_density \in EdgeDensities,
          lap_var \in LaplacianVariances :
         proc' = [fn |-> "detect_handwriting_texture", input |-> image,
                  edge_density |-> edge_density, lap_var |-> lap_var,
                  outcome |-> detect_handwriting_texture(image, edge_density, lap_var)]
    /\ UNCHANGED invocation

(* process_pdf_pages, step by step: tmp says whether the staged file exists *)
\* process_pdf_pages is entered with a document of some length
CallProcessPdfPages ==
    /\ proc = Idle
    /\ \E n \in 1..MaxPages :
         proc' = [fn |-> "process_pdf_pages", at |-> "stage", pages |-> n,
                  page_num |-> 0, tmp |-> FALSE, outcome |-> Pending]
    /\ UNCHANGED invocation

\* the finally block: doc.close() and os.unlink, each with its failure ignored
Finally(p, unlinked, outcome) ==
    [p EXCEPT !.at = "left", !.tmp = ~unlinked, !.outcome = outcome]

\* lines 114-116: NamedTemporaryFile(delete=False) and the write
StageFile ==
    /\ proc.fn = "process_pdf_pages"
    /\ proc.at = "stage"
    /\ \/ proc' = [proc EXCEPT !.at = "open", !.tmp = TRUE]
       \/ proc' = [proc EXCEPT !.at = "left", !.outcome = Raises("NamedTemporaryFile")]
       \/ proc' = [proc EXCEPT !.at = "left", !.tmp = TRUE, !.outcome = Raises("write")]
    /\ UNCHANGED invocation

\* line 119: fitz.open on the staged file
OpenStaged ==
    /\ proc.fn = "process_pdf_pages"
    /\ proc.at = "open"
    /\ \/ proc' = [proc EXCEPT !.at = "render"]
       \/ \E unlinked \in BOOLEAN : proc' = Finally(proc, unlinked, Raises("fitz.open"))
    /\ UNCHANGED invocation

\* lines 121-135: one page rendered and converted
RenderPage ==
    /\ proc.fn = "process_pdf_pages"
    /\ proc.at = "render"
    /\ proc.page_num < proc.pages
    /\ \/ proc' = [proc EXCEPT !.page_num = @ + 1]
       \/ \E unlinked \in BOOLEAN, failing \in {"get_pixmap", "Image.open"} :
            proc' = Finally(proc, unlinked, Raises(failing))
    /\ UNCHANGED invocation

\* line 137: return pages_data
ReturnPages ==
    /\ proc.fn = "process_pdf_pages"
    /\ proc.at = "render"
    /\ proc.page_num = proc.pages
    /\ \E unlinked \in BOOLEAN : proc' = Finally(proc, unlinked, Returns(proc.pages))
    /\ UNCHANGED invocation

InitProc == Init

NextProc ==
    \/ CallPreprocessImage
    \/ CallPreprocessImageAdvanced
    \/ CallDetectHandwritingTexture
    \/ CallProcessPdfPages
    \/ StageFile
    \/ OpenStaged
    \/ RenderPage
    \/ ReturnPages

\* the functions of core/image_processor called on their own
SpecProc == InitProc /\ [][NextProc]_vars

(* ============================ properties ================================ *)
PdfPath == is_pdf_url(url)

\* extract_text_from_pdf has returned from the raster path without an exception
PdfRasterReturned ==
    /\ PdfPath
    /\ pc \in {"pdf_return", "done", "answered"}
    /\ file_type \notin {"none", "text_pdf", "error_pdf"}

\* extract_text_from_image has returned
ImageReturned ==
    /\ ~PdfPath
    /\ pc \in {"img_return", "done", "answered"}
    /\ file_type # "none"

\* process_from_url has returned the five-field response
SuccessResponse == pc = "done" /\ IsSuccess(result)

EnhancedRan == calls.enhanced > 0

HasSignal == texture_detected \/ RatGT(contour_score, <<3, 10>>)

InBand(c, lo, hi) == RatGE(c, <<lo, 1>>) /\ RatLT(c, <<hi, 1>>)

\* the confidence after any enhanced-pass averaging
FinalConfidence ==
    IF EnhancedRan /\ extra[1] # <<>>
    THEN RatDiv(RatAdd(std_conf, extra[2]), 2)
    ELSE std_conf

\* C1: on the PDF raster path the label follows the confidence bands and the
\* page-1 signals: >= 80 image_pdf; [60,80) image_pdf without a signal, else
\* mixed_image_pdf; [40,60) low_quality_image_pdf with a signal, else
\* low_quality_printed_pdf; < 40 handwritten_pdf; c is the final confidence.
C1_PdfLabelTable ==
    PdfRasterReturned =>
      /\ avg_conf = FinalConfidence
      /\ RatGE(avg_conf, <<80, 1>>) => file_type = "image_pdf"
      /\ (InBand(avg_conf, 60, 80) /\ ~HasSignal) => file_type = "image_pdf"
      /\ (InBand(avg_conf, 60, 80) /\ HasSignal) => file_type = "mixed_image_pdf"
      /\ (InBand(avg_conf, 40, 60) /\ HasSignal) => file_type = "low_quality_image_pdf"
      /\ (InBand(avg_conf, 40, 60) /\ ~HasSignal) => file_type = "low_quality_printed_pdf"
      /\ RatLT(avg_conf, <<40, 1>>) => file_type = "handwritten_pdf"

\* a two-page PDF whose averaged confidence is exactly 80 with a signal present
C1_Witness ==
    /\ PdfRasterReturned
    /\ file_content.pages = 2
    /\ avg_conf = <<80, 1>>
    /\ HasSignal
    /\ EnhancedRan
    /\ extra[1] # <<>>

\* C2: on the image path the label follows the bands: >= 80 printed_image;
\* [60,80) printed_image without a signal, else image_pdf; [40,60)
\* low_quality_image_ with a signal, else low_quality_image; < 40
\* handwritten_image; c is the final confidence.
C2_ImageLabelTable ==
    ImageReturned =>
      /\ avg_conf = FinalConfidence
      /\ RatGE(avg_conf, <<80, 1>>) => file_type = "printed_image"
      /\ (InBand(avg_conf, 60, 80) /\ ~HasSignal) => file_type = "printed_image"
      /\ (InBand(avg_conf, 60, 80) /\ HasSignal) => file_type = "image_pdf"
      /\ (InBand(avg_conf, 40, 60) /\ HasSignal) => file_type = "low_quality_image_"
      /\ (InBand(avg_conf, 40, 60) /\ ~HasSignal) => file_type = "low_quality_image"
      /\ RatLT(avg_conf, <<40, 1>>) => file_type = "handwritten_image"

\* an image whose averaged confidence is exactly 60 with only the contour signal
C2_Witness ==
    /\ ImageReturned
    /\ avg_conf = <<60, 1>>
    /\ ~texture_detected
    /\ RatGT(contour_score, <<3, 10>>)
    /\ EnhancedRan
    /\ extra[1] # <<>>
    /\ file_type = "image_pdf"

\* C3 (as claimed): two success responses with the same file_type carry the
\* same is_handwritten flag, whichever path produced them.
C3_FlagFromLabelAlone ==
    (SuccessResponse /\ prev.file_type = result.file_type)
      => prev.is_handwritten = result.is_handwritten

\* C4: on the PDF path is_handwritten holds exactly for handwritten_pdf and
\* image_pdf; on the image path exactly for handwritten_image and
\* mixed_handwritten_image.
C4_FlagPerFamily ==
    SuccessResponse =>
      IF PdfPath
      THEN /\ result.is_handwritten
                <=> result.file_type \in {"handwritten_pdf", "image_pdf"}
           /\ result.file_type \in {"text_pdf", "mixed_image_pdf",
                                    "low_quality_image_pdf", "low_quality_printed_pdf"}
                => ~result.is_handwritten
      ELSE result.is_handwritten
                <=> result.file_type \in {"handwritten_image", "mixed_handwritten_image"}

\* a PDF response labelled image_pdf and flagged handwritten
C4_Witness ==
    /\ SuccessResponse
    /\ PdfPath
    /\ result.file_type = "image_pdf"
    /\ result.is_handwritten

\* the PDF raster path is past the decision of line 148
PdfPastTrigger ==
    /\ PdfPath
    /\ \/ pc = "pdf_classify"
       \/ PdfRasterReturned

\* the image path is past the decision of line 188
ImagePastTrigger ==
    /\ ~PdfPath
    /\ \/ pc = "img_classify"
       \/ ImageReturned

\* C5: on the PDF raster path the enhanced pass runs exactly once when
\* texture, standard confidence < 60 or contour irregularity > 0.3 holds, not
\* at all otherwise, never twice, and always on the raster of page 1.
C5_PdfEnhancedOnce ==
    PdfPath =>
      /\ calls.enhanced <= 1
      /\ PdfPastTrigger =>
           calls.enhanced =
             (IF \/ texture_detected
                 \/ RatLT(std_conf, <<60, 1>>)
                 \/ RatGT(contour_score, <<3, 10>>)
              THEN 1 ELSE 0)
      /\ ~PdfPastTrigger => calls.enhanced = 0
      /\ EnhancedRan => enhanced_input = 0

\* a two-page PDF where only the contour irregularity triggers the pass
C5_Witness ==
    /\ PdfPastTrigger
    /\ file_content.pages = 2
    /\ ~texture_detected
    /\ RatGE(std_conf, <<60, 1>>)
    /\ RatGT(contour_score, <<3, 10>>)
    /\ calls.enhanced = 1

\* C6: on the image path the enhanced pass runs exactly once when standard
\* confidence < 60 or texture holds and not otherwise; contour irregularity
\* alone never triggers it; confidence >= 80 without signals gives
\* printed_image, not handwritten, no enhanced pass.
C6_ImageEnhancedOnce ==
    ~PdfPath =>
      /\ calls.enhanced <= 1
      /\ ImagePastTrigger =>
           calls.enhanced =
             (IF RatLT(std_conf, <<60, 1>>) \/ texture_detected THEN 1 ELSE 0)
      /\ ~ImagePastTrigger => calls.enhanced = 0
      /\ (/\ ImagePastTrigger
          /\ RatGE(std_conf, <<60, 1>>)
          /\ ~texture_detected
          /\ RatGT(contour_score, <<3, 10>>)) => calls.enhanced = 0
      /\ (/\ SuccessResponse
          /\ RatGE(std_conf, <<80, 1>>)
          /\ ~HasSignal) =>
             /\ result.file_type = "printed_image"
             /\ ~result.is_handwritten
             /\ calls.enhanced = 0

\* an image with confidence >= 60, no texture and contour irregularity > 0.3
C6_Witness ==
    /\ SuccessResponse
    /\ ~PdfPath
    /\ RatGE(std_conf, <<60, 1>>)
    /\ ~texture_detected
    /\ RatGT(contour_score, <<3, 10>>)
    /\ calls.enhanced = 0

Averaged == RatDiv(RatAdd(std_conf, extra[2]), 2)

Concatenated == std_text \o <<"\n">> \o extra[1]

\* C7 (as claimed): whenever the enhanced pass ran, whatever it returned, the
\* final confidence is the mean of the two passes and the final text is the
\* standard text, a newline and the enhanced text.
C7_AlwaysAveraged ==
    EnhancedRan =>
      /\ avg_conf = Averaged
      /\ text = Concatenated

\* C7 (amended): when the enhanced pass ran and returned non-empty text, the
\* final confidence is the mean of the two passes, the final text is the
\* standard text, a newline and the enhanced text, and the response reports
\* that mean rounded; when it returned empty text both stay as the standard
\* pass left them.
C7_AveragedWhenText ==
    EnhancedRan =>
      /\ extra[1] # <<>> =>
           /\ avg_conf = Averaged
           /\ text = Concatenated
           /\ SuccessResponse =>
                /\ result.confidence = Round2(Averaged)
                /\ result.extracted_text = Concatenated
      /\ extra[1] = <<>> =>
           /\ avg_conf = std_conf
           /\ text = std_text

\* a response built after an enhanced pass with text and a different confidence
C7_Witness ==
    /\ SuccessResponse
    /\ EnhancedRan
    /\ extra[1] # <<>>
    /\ extra[2] # std_conf
    /\ std_text # <<>>

\* C8: a PDF whose trimmed text layer is longer than 50 characters returns
\* text_pdf with confidence 95.0, not handwritten, without rasterization,
\* recognition, signal analysis or enhanced pass; with 50 or fewer characters
\* the raster path is taken.
C8_TextLayerFastPath ==
    /\ (PdfPath /\ file_type = "text_pdf") =>
         /\ Len(text) > 50
         /\ avg_conf = <<95, 1>>
         /\ calls.rasterize = 0
         /\ calls.recognize = 0
         /\ calls.signals = 0
         /\ calls.enhanced = 0
    /\ (SuccessResponse /\ result.file_type = "text_pdf") =>
         /\ result.confidence = <<95, 1>>
         /\ ~result.is_handwritten
    /\ pc = "pdf_open" => Len(Strip(text)) <= 50

\* a two-page PDF whose text layer has 51 characters in all
C8_Witness ==
    /\ SuccessResponse
    /\ result.file_type = "text_pdf"
    /\ file_content.pages = 2
    /\ Len(result.extracted_text) = 51

\* C9 (as claimed): a failure of any step after a successful fetch makes
\* process_from_url return only the error with the original cause message.
C9_FailureReturnsError ==
    (pc = "done" /\ raised # "none") =>
      /\ DOMAIN result = {"error"}
      /\ result.error = raised

\* C10 (as claimed): a success response carries a label of the fixed
\* vocabulary of its family.
C10_LabelVocabulary ==
    SuccessResponse =>
      IF PdfPath
      THEN result.file_type \in {"text_pdf", "image_pdf", "mixed_image_pdf",
                                 "low_quality_image_pdf", "low_quality_printed_pdf",
                                 "handwritten_pdf"}
      ELSE result.file_type \in {"printed_image", "image_pdf", "low_quality_image_",
                                 "low_quality_image", "handwritten_image"}

AbsInt(n) == IF n < 0 THEN -n ELSE n

\* C11: every success response has 0.0 <= confidence <= 100.0, and the
\* reported confidence is the internal confidence rounded to 2 decimals (a
\* whole number of hundredths, at most half a hundredth away from it).
C11_ConfidenceRangeRounded ==
    SuccessResponse =>
      /\ RatGE(result.confidence, <<0, 1>>)
      /\ RatGE(<<100, 1>>, result.confidence)
      /\ RatGE(avg_conf, <<0, 1>>)
      /\ RatGE(<<100, 1>>, avg_conf)
      /\ 100 % result.confidence[2] = 0
      /\ 200 * AbsInt(result.confidence[1] * avg_conf[2]
                        - avg_conf[1] * result.confidence[2])
           <= result.confidence[2] * avg_conf[2]

\* a response whose internal confidence has more than two decimals and is
\* rounded upwards
C11_Witness ==
    /\ SuccessResponse
    /\ EnhancedRan
    /\ RatGT(result.confidence, avg_conf)

Blank(s) == \A i \in 1..Len(s) : s[i] \in {" ", "\n"}

\* C12: in every success response extracted_text is neither empty nor
\* whitespace-only; it is '(No text found)' exactly when the accumulated text
\* is empty after trimming, and otherwise the accumulated text unchanged.
C12_TextNeverBlank ==
    SuccessResponse =>
      /\ ~Blank(result.extracted_text)
      /\ result.extracted_text = <<"(No text found)">> <=> Blank(text)
      /\ ~Blank(text) => result.extracted_text = text

\* a two-page PDF whose pages and enhanced pass all give no text: the joined
\* text is a newline before trimming, and the placeholder is returned
C12_Witness ==
    /\ SuccessResponse
    /\ file_content.pages = 2
    /\ all_text = << <<>>, <<>> >>
    /\ EnhancedRan
    /\ result.extracted_text = <<"(No text found)">>

\* C13: one HTTP GET per invocation; when it fails it is not retried, no
\* decoding, rasterization or recognition runs, and the caller receives the
\* failure with the cause message.
C13_SingleFetch ==
    /\ calls.get <= 1
    /\ pc # "start" => calls.get = 1
    /\ (pc = "done" /\ raised \in {"timeout", "404 Client Error"}) =>
         /\ calls = [get |-> 1, textlayer |-> 0, rasterize |-> 0, decode |-> 0,
                     recognize |-> 0, signals |-> 0, enhanced |-> 0]
         /\ DOMAIN result = {"error"}
         /\ result.error = raised

\* an invocation ended by a timed-out GET
C13_Witness ==
    /\ pc = "done"
    /\ raised = "timeout"
    /\ calls.get = 1
    /\ result = [error |-> "timeout"]

\* the URLs whose lower-cased text ends with ".pdf"
PdfSuffixUrls == { <<"a", ".", "P", "d", "f">> }

FetchFailed == raised \in {"timeout", "404 Client Error"}

\* the invocation is past the test of line 220
Dispatched == pc \notin {"start", "downloaded"} /\ ~FetchFailed

\* C14: the PDF path is taken exactly for URLs that end with '.pdf' compared
\* case-insensitively; every other URL is decoded as an image, and bytes that
\* are no image end the call with the decode failure after the single fetch,
\* without recognition.
C14_SuffixDispatch ==
    /\ Dispatched =>
         IF url \in PdfSuffixUrls
         THEN calls.textlayer = 1 /\ calls.decode = 0
         ELSE calls.textlayer = 0 /\ calls.decode = 1
    /\ (pc = "done" /\ ~FetchFailed /\ url \notin PdfSuffixUrls
          /\ file_content.kind # "image") =>
         /\ result = [error |-> "Could not decode image from URL content"]
         /\ calls = [get |-> 1, textlayer |-> 0, rasterize |-> 0, decode |-> 1,
                     recognize |-> 0, signals |-> 0, enhanced |-> 0]

\* PDF bytes behind a URL with a query string after '.pdf' end at decode time
C14_Witness ==
    /\ pc = "done"
    /\ url = <<"a", ".", "p", "d", "f", "?">>
    /\ file_content.kind = "pdf"
    /\ calls.decode = 1
    /\ result = [error |-> "Could not decode image from URL content"]

\* /extract-data has answered the request
ExtractAnswered == pc = "answered" /\ http.route = "extract-data"

\* /verify-handwritten has answered the request
VerifyAnswered == pc = "answered" /\ http.route = "verify-handwritten"

\* both passes ran and neither produced text or a usable token confidence
AllPassesEmpty ==
    /\ PdfRasterReturned \/ ImageReturned
    /\ std_text = <<>>
    /\ std_conf = Zero
    /\ EnhancedRan
    /\ extra = NoExtra

\* C15: a document that is fetched and decoded but for which every
\* recognition pass yields no text and no usable token confidence is a
\* success, not a failure: the response carries the placeholder
\* '(No text found)' and confidence 0.0, and /extract-data answers 2xx with it.
C15_EmptyDocumentSucceeds ==
    (ExtractAnswered /\ AllPassesEmpty) =>
      /\ IsSuccess(result)
      /\ result.extracted_text = <<"(No text found)">>
      /\ result.confidence = <<0, 1>>
      /\ http.status >= 200
      /\ http.status < 300
      /\ http.body.success
      /\ http.body.data = result

C15_Witness ==
    /\ ExtractAnswered
    /\ AllPassesEmpty
    /\ PdfPath
    /\ page_num = MaxPages
    /\ http.status = 200

\* the pipeline raised after the bytes had been fetched
ProcessingFailed == raised # "none" /\ ~FetchFailed

\* C16: /extract-data and /verify-handwritten answer a fetch failure with a
\* client-error (4xx) status and a processing failure (decode, rasterization,
\* recognition) with a server-error (5xx) status, and run the pipeline at
\* most once per request.
C16_FailureStatusClasses ==
    pc = "answered" =>
      /\ FetchFailed => (http.status >= 400 /\ http.status < 500)
      /\ ProcessingFailed => (http.status >= 500 /\ http.status < 600)
      /\ calls.get <= 1
      /\ calls.textlayer + calls.decode <= 1

\* the page loop of the raster path has ended and the pages are aggregated
PdfAggregated ==
    \/ PdfPath /\ pc \in {"pdf_enhance", "pdf_classify"}
    \/ PdfRasterReturned

\* C18: on the raster path the standard-pass confidence of an n-page PDF is
\* the sum of the per-page mean confidences divided by n, a page without a
\* positive numeric token confidence counting as 0.0 instead of being left out.
C18_MeanOverAllPages ==
    PdfAggregated =>
      std_conf = RatDiv(SumRats(confidences), page_num)

\* the recognition engine raised during the standard pass: on the image, or
\* on a page of the raster path
StandardEngineThrew ==
    /\ raised = "engine failure"
    /\ calls.signals = 0
    /\ \/ ~PdfPath /\ calls.recognize = 1
       \/ PdfPath /\ calls.rasterize = page_num + 1

\* C19: when the recognition engine throws during a pass, the pass counts as
\* confidence 0.0 with empty text, the invocation does not fail, and the
\* response carries a label of the decision table, not an error and not the
\* error label.
C19_EngineFailureRecovered ==
    (pc = "done" /\ StandardEngineThrew) =>
      /\ IsSuccess(result)
      /\ result.file_type \in {"image_pdf", "mixed_image_pdf", "low_quality_image_pdf",
                               "low_quality_printed_pdf", "handwritten_pdf",
                               "printed_image", "low_quality_image_",
                               "low_quality_image", "handwritten_image"}
      /\ result.extracted_text # <<"(Error extracting text)">>

\* is_handwritten as /extract-data reports it for what the extractor returned
ExtractFlag ==
    IF PdfPath
    THEN Response(url, file_type, avg_conf, PdfHandwrittenLabels, text).is_handwritten
    ELSE Response(url, file_type, avg_conf, ImgHandwrittenLabels, text).is_handwritten

\* is_handwritten as /verify-handwritten reports it for the same return
VerifyFlag ==
    IF PdfPath
    THEN VerifyPdfResponse(url, file_type, avg_conf).is_handwritten
    ELSE VerifyImageResponse(url, file_type, avg_conf).is_handwritten

\* C20: for the same document and the same collaborator outputs, the case
\* where PDF processing fails internally included, /verify-handwritten and
\* /extract-data report the same is_handwritten.
C20_EndpointsAgreeOnFlag ==
    (pc = "answered" /\ http.status = 200) =>
      IF http.route = "verify-handwritten"
      THEN http.body.data.is_handwritten = ExtractFlag
      ELSE http.body.data.is_handwritten = VerifyFlag

\* the second of two identical invocations has returned
SecondReturned == pc = "done" /\ Stubbed /\ "nothing" \notin DOMAIN first

EnhancedCameBackEmpty ==
    /\ PdfRasterReturned \/ ImageReturned
    /\ EnhancedRan
    /\ extra[1] = <<>>

\* C21: when the enhanced pass is invoked and returns empty text (its internal
\* failure included), text and confidence stay exactly as the standard pass
\* produced them and the label is the one of the standard confidence; the
\* enhanced confidence counts only together with non-empty enhanced text.
C21_EmptyEnhancedChangesNothing ==
    EnhancedCameBackEmpty =>
      /\ text = std_text
      /\ avg_conf = std_conf
      /\ file_type = IF PdfPath
                     THEN PdfType(std_conf, texture_detected, contour_score)
                     ELSE ImgType(std_conf, texture_detected, contour_score)
      /\ SuccessResponse => result.confidence = Round2(std_conf)

\* empty enhanced text with an enhanced confidence in another band
C21_Witness ==
    /\ EnhancedCameBackEmpty
    /\ SuccessResponse
    /\ extra[2] = <<100, 1>>
    /\ std_conf = <<20, 1>>
    /\ result.file_type \in {"handwritten_pdf", "handwritten_image"}

\* a raster-path extractor has returned without having run the enhanced pass
ReturnedUnenhanced ==
    /\ PdfRasterReturned \/ ImageReturned
    /\ ~EnhancedRan

\* C22: a raster-path result produced without the enhanced pass has a final
\* confidence of at least 60 and the label image_pdf (PDF path) or
\* printed_image / image_pdf (image path); the handwritten, low-quality and
\* mixed labels are produced only when the enhanced pass ran.
C22_UnenhancedIsPrinted ==
    /\ ReturnedUnenhanced =>
         /\ RatGE(avg_conf, <<60, 1>>)
         /\ avg_conf = std_conf
         /\ IF PdfPath THEN file_type = "image_pdf"
                       ELSE file_type \in {"printed_image", "image_pdf"}
    /\ ((PdfRasterReturned \/ ImageReturned) /\
        file_type \in {"handwritten_pdf", "handwritten_image", "low_quality_image_pdf",
                       "low_quality_printed_pdf", "low_quality_image_",
                       "low_quality_image", "mixed_image_pdf"})
         => EnhancedRan

\* an image answered without the enhanced pass although its contour is irregular
C22_Witness ==
    /\ ReturnedUnenhanced
    /\ ~PdfPath
    /\ SuccessResponse
    /\ RatGT(contour_score, <<3, 10>>)
    /\ result.file_type = "image_pdf"

\* a preprocessor was called with a toolkit call that fails
PreprocessorDegraded ==
    \/ /\ proc.fn = "preprocess_image"
       /\ proc.input # "None"
       /\ proc.failing # "none"
    \/ /\ proc.fn = "preprocess_image_advanced"
       /\ proc.failing # "none"
       /\ ~(proc.failing = "convert" /\ proc.input.mode = "RGB")

\* C23: when a toolkit call fails inside preprocess_image or
\* preprocess_image_advanced the function does not raise; it returns the image
\* it was given, unchanged.
C23_PreprocessorsDegrade ==
    PreprocessorDegraded => proc.outcome = Returns(proc.input)

\* control has left process_pdf_pages, by return or by raise
LeftProcessPdfPages == proc.fn = "process_pdf_pages" /\ proc.at = "left"

\* C24: on every exit path of process_pdf_pages, normal return or a raise at
\* any step, the staged temporary file no longer exists when control leaves.
C24_NoStagedFileLeft == LeftProcessPdfPages => ~proc.tmp

\* detect_handwriting_texture measured an image
TextureMeasured == proc.fn = "detect_handwriting_texture" /\ proc.input # "None"

\* C29: detect_handwriting_texture returns true exactly when edge density is
\* strictly above 0.08 (2/25) or Laplacian variance strictly above 250; at
\* 0.08 and 250 it returns false.
C29_StrictThresholds ==
    TextureMeasured =>
      /\ proc.outcome.kind = "return"
      /\ proc.outcome.value <=>
           \/ proc.edge_density[1] * 25 > 2 * proc.edge_density[2]
           \/ proc.lap_var[1] > 250 * proc.lap_var[2]
      /\ (proc.edge_density = <<2, 25>> /\ proc.lap_var = <<250, 1>>) =>
           proc.outcome.value = FALSE

C29_Witness ==
    /\ TextureMeasured
    /\ proc.edge_density = <<2, 25>>
    /\ proc.lap_var = <<250, 1>>
    /\ proc.outcome = Returns(FALSE)

\* the qualifying tokens of a recognition pass, counted from the raw data:
\* their number and their sum
RECURSIVE QualCount(_)
QualCount(data) ==
    IF data = <<>> THEN 0
    ELSE (IF Head(data) > 0 THEN 1 ELSE 0) + QualCount(Tail(data))

RECURSIVE QualSum(_)
QualSum(data) ==
    IF data = <<>> THEN 0
    ELSE (IF Head(data) > 0 THEN Head(data) ELSE 0) + QualSum(Tail(data))

TrueMean(data) ==
    IF QualCount(data) = 0 THEN <<0, 1>> ELSE Rat(QualSum(data), QualCount(data))

\* the means of the first n stubbed pages that have a qualifying token
RECURSIVE PageMeans(_)
PageMeans(n) ==
    IF n = 0 THEN <<>>
    ELSE IF QualCount(stub.page[n].data) = 0 THEN PageMeans(n - 1)
    ELSE Append(PageMeans(n - 1), TrueMean(stub.page[n].data))

\* inside the page loop of the raster path, or after it
InPageLoop == Stubbed /\ PdfPath /\ pc \in {"pdf_pages", "pdf_enhance", "pdf_classify"}

\* the standard pass on an image has returned
ImagePassDone == Stubbed /\ ~PdfPath /\ pc \in {"img_signals", "img_enhance", "img_classify"}

\* the enhanced pass has returned from the engine
EnhancedPassDone ==
    Stubbed /\ pc \in {"pdf_classify", "img_classify"} /\ EnhancedRan /\ ~stub.enhanced.raises

RECURSIVE JoinedPages(_)
JoinedPages(n) ==
    IF n = 0 THEN <<>>
    ELSE IF n = 1 THEN stub.page[1].text
    ELSE JoinedPages(n - 1) \o <<"\n">> \o stub.page[n].text

\* C26: on the raster path the pages are taken one at a time in ascending
\* index, each recognised exactly once in the standard pass, and the
\* standard-pass text is the page texts joined with newlines in that order.
C26_PagesInAscendingOrder ==
    InPageLoop =>
      /\ Len(all_text) = page_num
      /\ \A i \in 1..page_num : all_text[i] = stub.page[i].text
      /\ calls.recognize = page_num
      /\ pc # "pdf_pages" =>
           /\ page_num = file_content.pages
           /\ std_text = Strip(JoinedPages(page_num))

C26_Witness ==
    /\ InPageLoop
    /\ pc = "pdf_enhance"
    /\ page_num = 2
    /\ stub.page[1].text = <<"b", "\n">>
    /\ stub.page[2].text = <<"a">>
    /\ std_text = <<"b", "\n", "\n", "a">>
    /\ calls.recognize = 2

\* the signals of the raster path have been computed
PdfSignalsTaken == Stubbed /\ PdfPath /\ pc \in {"pdf_enhance", "pdf_classify"}

\* line 148 evaluated on the first page's stubbed signals
FirstPageTrigger ==
    \/ stub.signals.texture
    \/ std_conf[1] < 60 * std_conf[2]
    \/ stub.signals.contour[1] * 10 > 3 * stub.signals.contour[2]

\* C27: on the raster path the structural signals are computed once per
\* invocation, from the first page's raster only, and that one pair decides
\* both the enhanced-pass trigger and the label of the whole document, whatever
\* the later pages look like.
C27_SignalsFromFirstPage ==
    /\ PdfSignalsTaken =>
         /\ texture_detected = stub.signals.texture
         /\ contour_score = stub.signals.contour
         /\ calls.signals = 1
         /\ pc = "pdf_classify" => (EnhancedRan <=> FirstPageTrigger)
    /\ (Stubbed /\ PdfRasterReturned) =>
         /\ calls.signals = 1
         /\ file_type = PdfType(avg_conf, stub.signals.texture, stub.signals.contour)
         /\ EnhancedRan <=> FirstPageTrigger

C27_Witness ==
    /\ Stubbed
    /\ PdfRasterReturned
    /\ file_content.pages = 2
    /\ stub.signals = [texture |-> FALSE, contour |-> <<0, 1>>]
    /\ stub.signals_rest = [texture |-> TRUE, contour |-> <<1, 2>>]
    /\ std_conf = <<60, 1>>
    /\ ~EnhancedRan
    /\ file_type = "image_pdf"

\* C28: no invocation, on either path and for any confidence and signals,
\* returns the label "mixed_handwritten_image", although the image family's
\* is_handwritten set names it.
C28_MixedLabelNeverReturned ==
    /\ "mixed_handwritten_image" \in ImgHandwrittenLabels
    /\ file_type # "mixed_handwritten_image"
    /\ SuccessResponse => result.file_type # "mixed_handwritten_image"
    /\ (pc = "answered" /\ http.status = HTTP_OK) =>
         http.body.data.file_type # "mixed_handwritten_image"

\* an image in the band [60, 80) with a structural signal: the place where a
\* mixed label would belong
C28_Witness ==
    /\ SuccessResponse
    /\ ~PdfPath
    /\ InBand(avg_conf, 60, 80)
    /\ texture_detected
    /\ result.file_type = "image_pdf"
    /\ ~result.is_handwritten

\* two invocations are in progress side by side
SideBySide == parked # NoParked

\* C30: whatever the interleaving of the steps of two simultaneous
\* process_from_url invocations, an invocation returns what it returned when
\* it ran alone: nothing it reads or writes belongs to the other.
C30_InvocationsIsolated ==
    SideBySide =>
      /\ (me = "A" /\ pc = "done") => result = first
      /\ (parked.me = "A" /\ parked.pc = "done") => parked.result = first

C30_Witness ==
    /\ SideBySide
    /\ me = "A"
    /\ pc = "done"
    /\ IsSuccess(result)
    /\ result = first
    /\ result.extracted_text = <<"b", "\n", "\n", "a", "\n", "c">>
    /\ parked.pc = "pdf_pages"
    /\ parked.page_num = 1
    /\ parked.all_text = << <<"a">> >>

====
